---- MODULE Spec2Model ----
(***************************************************************************)
(* A model of the RAW -> JPEG pipeline of Image_editing_hardware_specific: *)
(* the cache key (preprocess.file_hash_of_raw_and_filters), the filter     *)
(* stage of the three processing entry points, hardware.processing_policy, *)
(* and the Flask application (app.py) with its 2-worker executor, the      *)
(* cache directory, LATEST and TASKS.                                      *)
(*                                                                         *)
(* Conventions.  An optional value (Python None) is the empty tuple, a     *)
(* present value x is <<x>>.  A Python float is an integer number of       *)
(* hundredths (115 is 1.15).  A str / bytes value is a sequence of         *)
(* one-character strings (a few fixed words, such as a quoted dict key,    *)
(* are kept as one token).  hashlib.sha256 is taken to be injective, so a  *)
(* digest is modelled by the byte string that was fed to it.               *)
(***************************************************************************)
EXTENDS Integers, Sequences, FiniteSets, TLC

VARIABLES
    fs,          \* os.stat of every RAW path: <<>> when the file is missing
    cache,       \* data/cache: file name -> contents ("partial" or an artifact)
    LATEST,      \* app.LATEST
    TASKS,       \* app.TASKS
    procs,       \* the startup run (id 0) and every /start request: handler, then job
    queue,       \* executor's work queue (FIFO of job ids)
    decodeCalls, \* number of RAW decodes (rawpy.imread ... postprocess) begun so far
    escaped,     \* jobs whose exception left run_full
    lastDone,    \* the job that reached a terminal state last
    completed,   \* inputs of the preview/full calls that have returned a path
    call,        \* a pure function under test: its arguments
    result       \* ... and what it returned

vars == <<fs, cache, LATEST, TASKS, procs, queue, decodeCalls, escaped,
          lastDone, completed, call, result>>

serverVars == <<fs, cache, LATEST, TASKS, procs, queue, decodeCalls, escaped,
                lastDone, completed>>

None == <<>>
Some(x) == <<x>>
IsSome(o) == o # <<>>
Val(o) == o[1]

(***************************************************************************)
(* Strings                                                                 *)
(***************************************************************************)
Digit(d) == CASE d = 0 -> "0" [] d = 1 -> "1" [] d = 2 -> "2" [] d = 3 -> "3"
              [] d = 4 -> "4" [] d = 5 -> "5" [] d = 6 -> "6" [] d = 7 -> "7"
              [] d = 8 -> "8" [] d = 9 -> "9"

RECURSIVE StrNat(_)
\* str(n) of a Python int n >= 0
StrNat(n) == IF n < 10 THEN <<Digit(n)>> ELSE StrNat(n \div 10) \o <<Digit(n % 10)>>

\* str(x) (repr) of a Python float given in hundredths: 100 -> 1.0, 115 -> 1.15,
\* 50 -> 0.5, -50 -> -0.5
StrFloat(x) ==
    LET a == IF x < 0 THEN -x ELSE x
        f == a % 100
        frac == IF f % 10 = 0 THEN <<Digit(f \div 10)>>
                ELSE <<Digit(f \div 10), Digit(f % 10)>>
    IN  (IF x < 0 THEN <<"-">> ELSE <<>>) \o StrNat(a \div 100) \o <<".">> \o frac

\* int(x) of a float timestamp [sec, frac]: the fraction is dropped
IntOfTime(t) == t.sec

(***************************************************************************)
(* Filter parameters: a dict is the sequence of its items in insertion     *)
(* order, keys distinct.                                                   *)
(***************************************************************************)
FilterKeys == {"saturation", "warmth", "brightness", "contrast", "sharpen"}

\* Python's order of the key strings
KeyRank(k) == CASE k = "brightness" -> 1 [] k = "contrast" -> 2
                [] k = "saturation" -> 3 [] k = "sharpen" -> 4 [] k = "warmth" -> 5

HasKey(d, k) == \E i \in 1..Len(d) : d[i][1] = k

\* d[k]
Item(d, k) == LET i == CHOOSE i \in 1..Len(d) : d[i][1] = k IN d[i][2]

\* d.get(k, default)
Get(d, k, default) == IF HasKey(d, k) THEN Item(d, k) ELSE default

\* the unsorted item list, as a bug would leave it
UnsortedItems(d) == d

RECURSIVE InsertItem(_, _)
\* the sorted list s with item it put in its place
InsertItem(it, s) ==
    IF s = <<>> THEN <<it>>
    ELSE IF KeyRank(it[1]) < KeyRank(Head(s)[1]) THEN <<it>> \o s
    ELSE <<Head(s)>> \o InsertItem(it, Tail(s))

RECURSIVE SortedItems(_)
\* sorted(d.items()): by key, the keys being distinct
SortedItems(d) == IF d = <<>> THEN <<>> ELSE InsertItem(Head(d), SortedItems(Tail(d)))

RECURSIVE JoinItems(_)
JoinItems(items) ==
    IF items = <<>> THEN <<>>
    ELSE LET it == Head(items)
             one == <<"(", "'", it[1], "'", ",", " ">> \o StrFloat(it[2]) \o <<")">>
         IN  IF Len(items) = 1 THEN one
             ELSE one \o <<",", " ">> \o JoinItems(Tail(items))

\* str(items) of a list of (key, value) tuples
StrItems(items) == <<"[">> \o JoinItems(items) \o <<"]">>

\* the bytes hashed when the size is left out
HashWithoutSize(raw_path, st, filters_config) ==
    raw_path \o StrNat(IntOfTime(st.st_mtime))
        \o (IF IsSome(filters_config) /\ Val(filters_config) # <<>>
            THEN StrItems(SortedItems(Val(filters_config))) ELSE <<>>)

\* the bytes hashed when the item list is not sorted
HashUnsorted(raw_path, st, filters_config) ==
    raw_path \o StrNat(st.st_size) \o StrNat(IntOfTime(st.st_mtime))
        \o (IF IsSome(filters_config) /\ Val(filters_config) # <<>>
            THEN StrItems(UnsortedItems(Val(filters_config))) ELSE <<>>)

\* file_hash_of_raw_and_filters: st is os.stat(raw_path); the result stands for
\* h.hexdigest()[:16]
file_hash_of_raw_and_filters(raw_path, st, filters_config) ==
    raw_path \o StrNat(st.st_size) \o StrNat(IntOfTime(st.st_mtime))
        \o (IF IsSome(filters_config) /\ Val(filters_config) # <<>>
            THEN StrItems(SortedItems(Val(filters_config))) ELSE <<>>)

(***************************************************************************)
(* filters.py: a raster is the decoded source plus the filter calls made   *)
(* on it, in order.  (With use_opencl the same numbers are computed on a   *)
(* UMat, so the flag is not part of the raster.)                           *)
(***************************************************************************)
Raster(src, dims) == [src |-> src, dims |-> dims, ops |-> <<>>]

apply_saturation(img, factor) ==
    [img EXCEPT !.ops = Append(@, <<"apply_saturation", factor>>)]

apply_warmth(img, strength) ==
    [img EXCEPT !.ops = Append(@, <<"apply_warmth", strength>>)]

adjust_brightness_contrast(img, brightness, contrast) ==
    [img EXCEPT !.ops = Append(@, <<"adjust_brightness_contrast", brightness, contrast>>)]

sharpen(img, strength) ==
    [img EXCEPT !.ops = Append(@, <<"sharpen", strength>>)]

\* fast_preview_raw, lines 85-88: the size of the raster after "ensure max
\* dimension".  scale = min(1.0, max_dim / max(h, w)) is below 1.0 exactly when
\* max_dim < max(h, w); int(w * scale) is the floor of w * max_dim / max(h, w) (the
\* double arithmetic gives that floor for every side up to 10).  A size with a zero
\* in it is what cv2.resize is handed; it rejects it.
ResizedDims(h, w, max_dim) ==
    LET m == IF h > w THEN h ELSE w
    IN  IF max_dim < m
        THEN [w |-> (w * max_dim) \div m, h |-> (h * max_dim) \div m, resized |-> TRUE]
        ELSE [w |-> w, h |-> h, resized |-> FALSE]

\* the message of the RuntimeError of full_process_raw, line 144, e being str() of
\* the decoder's exception
FullDecodeError(e) == <<"Failed to read RAW for full processing: ">> \o e

\* full_process_raw, lines 134-144 (fast_preview_raw, lines 67-79, has the same
\* shape): rawpy.imread, postprocess in the preferred mode, postprocess in the
\* default mode if that raised, RuntimeError if imread or the second postprocess
\* raised.  imread, first and second are the decoder's answers, e the message of its
\* exception.  stored says whether the call goes on to _save_cv2_jpeg.
Decode(preferred, raw_path, imread, first, second, e) ==
    IF ~imread
    THEN [tried |-> <<>>, rgb |-> None, error |-> Some(FullDecodeError(e)), stored |-> FALSE]
    ELSE IF first
    THEN [tried |-> <<preferred>>, rgb |-> Some(preferred), error |-> None, stored |-> TRUE]
    ELSE IF second
    THEN [tried |-> <<preferred, "default">>, rgb |-> Some("default"), error |-> None,
          stored |-> TRUE]
    ELSE [tried |-> <<preferred, "default">>, rgb |-> None,
          error |-> Some(FullDecodeError(e)), stored |-> FALSE]

\* the default filters_config of fast_preview_raw and of full_process_raw
PreviewDefaults == << <<"saturation", 115>>, <<"warmth", 102>>, <<"brightness", 100>>,
                      <<"contrast", 102>>, <<"sharpen", 0>> >>

FullDefaults == << <<"saturation", 115>>, <<"warmth", 102>>, <<"brightness", 100>>,
                   <<"contrast", 102>>, <<"sharpen", 50>> >>

\* the filter stage shared by fast_preview_raw and apply_filters_to_jpeg:
\* every filter is guarded by a comparison with its neutral value
GuardedFilters(bgr, cfg) ==
    LET p1 == IF Get(cfg, "saturation", 100) # 100
              THEN apply_saturation(bgr, Item(cfg, "saturation")) ELSE bgr
        p2 == IF Get(cfg, "warmth", 100) # 100
              THEN apply_warmth(p1, Item(cfg, "warmth")) ELSE p1
        p3 == IF Get(cfg, "brightness", 100) # 100 \/ Get(cfg, "contrast", 100) # 100
              THEN adjust_brightness_contrast(p2, Get(cfg, "brightness", 100),
                                              Get(cfg, "contrast", 100))
              ELSE p2
    IN  IF Get(cfg, "sharpen", 0) > 0 THEN sharpen(p3, Get(cfg, "sharpen", 0)) ELSE p3

\* fast_preview_raw, lines 91-103
PreviewFilters(bgr, cfg) == GuardedFilters(bgr, cfg)

\* apply_filters_to_jpeg, lines 182-194
EditFilters(img, filter_cfg) == GuardedFilters(img, filter_cfg)

\* full_process_raw, lines 150-158: only sharpen is guarded
FullFilters(bgr, cfg) ==
    LET p1 == apply_saturation(bgr, Get(cfg, "saturation", 100))
        p2 == apply_warmth(p1, Get(cfg, "warmth", 100))
        p3 == adjust_brightness_contrast(p2, Get(cfg, "brightness", 100),
                                         Get(cfg, "contrast", 100))
    IN  IF Get(cfg, "sharpen", 0) > 0 THEN sharpen(p3, Get(cfg, "sharpen", 0)) ELSE p3

(***************************************************************************)
(* hardware.py                                                             *)
(***************************************************************************)
Min(a, b) == IF a < b THEN a ELSE b
Max(a, b) == IF a > b THEN a ELSE b

\* the baseline of a policy that forgets the cap of 6
BaselineUncapped(cpu) == IF cpu >= 4 THEN cpu - 1 ELSE 1

\* processing_policy, lines 45-50
BaselineWorkers(cpu) ==
    IF cpu >= 8 THEN Min(6, cpu - 1) ELSE IF cpu >= 4 THEN cpu - 1 ELSE 1

\* processing_policy: cpu is cpu_count(), battery is battery_percent() (optional),
\* opencl is enable_opencl()
processing_policy(cpu, battery, opencl) ==
    LET n0 == BaselineWorkers(cpu)
        \* int(n_workers / 2): a float division, truncated
        n  == IF IsSome(battery) /\ Val(battery) <= 20 THEN Max(1, n0 \div 2) ELSE n0
    IN  [cpu_count |-> cpu, battery |-> battery, use_opencl |-> opencl,
         n_workers |-> n, preview_max_dim |-> 1024]

\* a battery adjustment without the floor of 85
QualityNoFloor(battery, quality) ==
    IF IsSome(battery) /\ Val(battery) <= 15 THEN quality - 6 ELSE quality

\* full_process_raw, lines 160-165: the JPEG quality it encodes with
EffectiveQuality(battery, quality) ==
    IF IsSome(battery) /\ Val(battery) <= 15 THEN Max(85, quality - 6) ELSE quality

(***************************************************************************)
(* app.py and the two tiers of preprocess.py.                              *)
(*                                                                         *)
(* Process 0 is ensure_preview_on_start and its background job; process r  *)
(* in 1..MaxStart is the r-th POST /start: first the request handler       *)
(* (fast_preview_raw on the handler's thread), then the job run_full it    *)
(* submits.  Flask serves requests on threads of their own, so handlers    *)
(* and jobs interleave; a step is one access to shared state (the cache    *)
(* directory, LATEST, TASKS, the executor's queue) together with the local *)
(* computation around it.                                                  *)
(***************************************************************************)
MaxStart == 1
MaxWorkers == 2

RAW_DEFAULT == <<"data/raw/RAW_SONY_ILCE-7RM2.ARW">>
OtherRaw == <<"data/raw/missing.ARW">>
RawPaths == {RAW_DEFAULT, OtherRaw}

\* os.stat of the RAW file when the server starts, and after the file was rewritten
FirstStat == [st_size |-> 12, st_mtime |-> [sec |-> 3, frac |-> 0]]
LaterStat == [st_size |-> 12, st_mtime |-> [sec |-> 4, frac |-> 0]]

\* the preset of ensure_preview_on_start
StartupPreset == PreviewDefaults

\* another preset a client may send
OtherPreset == << <<"saturation", 100>>, <<"warmth", 110>>, <<"brightness", 100>>,
                  <<"contrast", 100>>, <<"sharpen", 0>> >>

\* the "preset_filters" a POST /start may carry (None: the key is absent)
StartCfgs == {None, Some(StartupPreset), Some(OtherPreset)}

\* every os.stat the RAW file can show, and every key the server can ask for: the
\* table holds file_hash_of_raw_and_filters for each, computed once
ServerStats == {FirstStat, LaterStat}

KeyTable ==
    [ x \in RawPaths \X ServerStats \X
             {PreviewDefaults, FullDefaults, StartupPreset, OtherPreset} |->
        file_hash_of_raw_and_filters(x[1], x[2], Some(x[3])) ] @@ <<>>

\* key = file_hash_of_raw_and_filters(raw_path, filters_config), st being os.stat(raw_path)
KeyOf(raw_path, st, filters_config) == KeyTable[<<raw_path, st, filters_config>>]

\* battery_percent() as a job may read it
JobBatteries == {None, Some(10)}

Procs == 0..MaxStart
Jobs == Procs

Partial == [done |-> FALSE, img |-> None, q |-> 0]
Artifact(img, q) == [done |-> TRUE, img |-> Some(img), q |-> q]

\* CACHE_DIR/preview_<key>.jpg and CACHE_DIR/full_<key>.jpg, by their basenames
PreviewName(key) == <<"preview_">> \o key \o <<".jpg">>
FullName(key) == <<"full_">> \o key \o <<".jpg">>

\* os.path.exists(path) for a file of the cache directory
Exists(f) == f \in DOMAIN cache

\* a lookup that never finds the entry
NeverExists(f) == FALSE

\* the cache-hit test of fast_preview_raw and full_process_raw
Lookup(f) == Exists(f)

PreviewPcs == {"pv_decode", "pv_save", "pv_cv_write", "pv_pil_write", "pv_pil_new", "pv_ret"}
RunningPcs == {"fl_decode", "fl_save", "fl_cv_write", "fl_pil_write", "fl_pil_new", "fl_ret",
               "fl_status"}
TerminalPcs == {"succeeded", "failed"}

Running == { j \in Jobs : procs[j].pc \in RunningPcs }

NoStat == [st_size |-> 0, st_mtime |-> [sec |-> 0, frac |-> 0]]

IdleProc == [pc |-> "idle", raw_path |-> None, cfg |-> None, st |-> NoStat, pv |-> None, key |-> None, img |-> None, q |-> 0,
             resp |-> None]

\* what a call that returned a path was asked for
CallInputs(tier, raw_path, st, cfg, path) ==
    [tier |-> tier, raw_path |-> raw_path, st_size |-> st.st_size,
     st_mtime |-> st.st_mtime, cfg |-> cfg, path |-> path]

\* the state of a background job, read off its position
JobState(j) ==
    LET pc == procs[j].pc
    IN  IF pc = "queued" THEN "QUEUED"
        ELSE IF pc \in RunningPcs THEN "RUNNING"
        ELSE IF pc = "succeeded" THEN "SUCCEEDED"
        ELSE IF pc = "failed" THEN "FAILED"
        ELSE "NONE"

(* ensure_preview_on_start has run when the module is imported: the RAW file *)
(* was missing, or its preview failed, or the preview is cached and the job *)
(* is queued.                                                              *)
StartupKey == file_hash_of_raw_and_filters(RAW_DEFAULT, FirstStat, Some(StartupPreset))

StartupPreview ==
    Artifact(PreviewFilters(Raster(FirstStat, "half"), StartupPreset), 80)

Init ==
    /\ call = None /\ result = None
    /\ escaped = {} /\ lastDone = None
    /\ TASKS = [last |-> None]
    /\ \/ /\ fs = [p \in RawPaths |-> None]
          /\ LATEST = [preview |-> None, full |-> None]
          /\ procs = [p \in Procs |-> IF p = 0 THEN [IdleProc EXCEPT !.pc = "done"]
                                      ELSE IdleProc]
          /\ cache = <<>> /\ queue = <<>> /\ decodeCalls = 0 /\ completed = {}
       \/ /\ fs = [p \in RawPaths |-> IF p = RAW_DEFAULT THEN Some(FirstStat) ELSE None]
          /\ LATEST = [preview |-> None, full |-> None]
          /\ procs = [p \in Procs |->
                        IF p = 0 THEN [IdleProc EXCEPT !.pc = "done"] ELSE IdleProc]
          /\ cache = <<>> /\ queue = <<>> /\ decodeCalls = 1 /\ completed = {}
       \/ /\ fs = [p \in RawPaths |-> IF p = RAW_DEFAULT THEN Some(FirstStat) ELSE None]
          /\ LATEST = [preview |-> Some(PreviewName(StartupKey)), full |-> None]
          /\ procs = [p \in Procs |->
                        IF p = 0 THEN [IdleProc EXCEPT !.pc = "queued",
                                           !.raw_path = Some(RAW_DEFAULT),
                                           !.cfg = Some(StartupPreset),
                                           !.pv = Some(PreviewName(StartupKey))]
                        ELSE IdleProc]
          /\ cache = (PreviewName(StartupKey) :> StartupPreview)
          /\ queue = <<0>> /\ decodeCalls = 1
          /\ completed = {CallInputs("preview", RAW_DEFAULT, FirstStat, StartupPreset,
                                     PreviewName(StartupKey))}

harness == <<call, result>>

\* fast_preview_raw, lines 51-58, and full_process_raw, lines 115-122: the defaults
\* that stand in for filters_config = None
PreviewCfg(filters_config) ==
    IF filters_config = None THEN PreviewDefaults ELSE Val(filters_config)

FullCfg(filters_config) ==
    IF filters_config = None THEN FullDefaults ELSE Val(filters_config)

\* --- _save_cv2_jpeg(img, out_path, quality), a file system step at a time

\* cv2.imencode succeeded and open(out_path, 'wb') created or truncated the file; or
\* imencode failed and Image.save opened it: it truncated a file that was there
\* (pilPc) or created the file (pilNewPc)
SaveOpen(p, cvPc, pilPc, pilNewPc) ==
    /\ cache' = (Val(procs[p].key) :> Partial) @@ cache
    /\ \/ procs' = [procs EXCEPT ![p].pc = cvPc]
       \/ procs' = [procs EXCEPT ![p].pc = IF Exists(Val(procs[p].key)) THEN pilPc
                                           ELSE pilNewPc]

\* f.write(enc.tobytes()): the file is complete and the function returns; or the
\* write raises, the exception is swallowed and Image.save truncates the file
CvWrite(p, retPc, pilPc) ==
    \/ /\ cache' = (Val(procs[p].key) :> Artifact(Val(procs[p].img), procs[p].q)) @@ cache
       /\ procs' = [procs EXCEPT ![p].pc = retPc]
    \/ /\ cache' = (Val(procs[p].key) :> Partial) @@ cache
       /\ procs' = [procs EXCEPT ![p].pc = pilPc]

\* Image.save wrote the file
PilWrite(p, retPc) ==
    /\ cache' = (Val(procs[p].key) :> Artifact(Val(procs[p].img), procs[p].q)) @@ cache
    /\ procs' = [procs EXCEPT ![p].pc = retPc]

\* the inputs of the call p is in, once it returns its path
Returned(p, tier) ==
    completed' = completed \cup
        {CallInputs(tier, Val(procs[p].raw_path), procs[p].st,
                    IF tier = "preview" THEN PreviewCfg(procs[p].cfg)
                    ELSE FullCfg(procs[p].cfg),
                    Val(procs[p].key))}

\* --- POST /start, the handler

\* start, lines 81-89, into fast_preview_raw, lines 51-64
Start(r, raw_path, preset_filters) ==
    /\ procs[r].pc = "idle"
    /\ r > 1 => procs[r - 1].pc # "idle"
    /\ IF fs[raw_path] = None
       THEN /\ procs' = [procs EXCEPT ![r].pc = "done", ![r].resp = Some("400")]
            /\ UNCHANGED completed
       ELSE LET filters_config == PreviewCfg(preset_filters)
                st == Val(fs[raw_path])
                key == KeyOf(raw_path, st, filters_config)
                preview_path == PreviewName(key)
                hit == Lookup(preview_path)
            IN  /\ procs' = [procs EXCEPT ![r].pc = IF hit THEN "pv_ret" ELSE "pv_decode",
                                          ![r].raw_path = Some(raw_path),
                                          ![r].cfg = preset_filters,
                                          ![r].st = st,
                                          ![r].key = Some(preview_path),
                                          ![r].q = 80]
                /\ completed' = IF hit
                                THEN completed \cup
                                       {CallInputs("preview", raw_path, st, filters_config,
                                                   preview_path)}
                                ELSE completed
    /\ UNCHANGED <<fs, cache, LATEST, TASKS, queue, decodeCalls, escaped, lastDone, harness>>

\* fast_preview_raw, lines 67-103: decode (the preferred mode, or the default one
\* after the preferred was rejected), resize, filter; or both modes fail and start
\* answers 500
PreviewDecode(r) ==
    /\ procs[r].pc = "pv_decode"
    /\ decodeCalls' = decodeCalls + 1
    /\ \/ procs' = [procs EXCEPT
              ![r].pc = "pv_save",
              ![r].img = Some(PreviewFilters(
                            Raster(Val(fs[Val(procs[r].raw_path)]), "half"),
                            PreviewCfg(procs[r].cfg)))]
       \/ procs' = [procs EXCEPT ![r].pc = "done", ![r].resp = Some("500"),
                                 ![r].raw_path = None, ![r].cfg = None,
                                 ![r].key = None, ![r].st = NoStat, ![r].q = 0]
    /\ UNCHANGED <<fs, cache, LATEST, TASKS, queue, escaped, lastDone, completed, harness>>

PreviewSaveOpen(r) ==
    /\ procs[r].pc = "pv_save"
    /\ SaveOpen(r, "pv_cv_write", "pv_pil_write", "pv_pil_new")
    /\ UNCHANGED <<fs, LATEST, TASKS, queue, decodeCalls, escaped, lastDone, completed,
                   harness>>

PreviewCvWrite(r) ==
    /\ procs[r].pc = "pv_cv_write"
    /\ CvWrite(r, "pv_ret", "pv_pil_write")
    /\ IF procs'[r].pc = "pv_ret" THEN Returned(r, "preview") ELSE UNCHANGED completed
    /\ UNCHANGED <<fs, LATEST, TASKS, queue, decodeCalls, escaped, lastDone, harness>>

PreviewPilWrite(r) ==
    /\ procs[r].pc \in {"pv_pil_write", "pv_pil_new"}
    /\ PilWrite(r, "pv_ret")
    /\ Returned(r, "preview")
    /\ UNCHANGED <<fs, LATEST, TASKS, queue, decodeCalls, escaped, lastDone, harness>>

\* a failure path that clears LATEST["preview"], as ensure_preview_on_start does
PreviewFailClearsLatest(r) ==
    /\ procs[r].pc \in {"pv_save", "pv_pil_write", "pv_pil_new"}
    /\ procs' = [procs EXCEPT ![r].pc = "done", ![r].resp = Some("500"),
                              ![r].raw_path = None, ![r].cfg = None,
                              ![r].key = None, ![r].img = None, ![r].st = NoStat,
                              ![r].q = 0]
    /\ LATEST' = [LATEST EXCEPT !.preview = None]
    /\ UNCHANGED <<fs, cache, TASKS, queue, decodeCalls, escaped, lastDone,
                   completed, harness>>

\* _save_cv2_jpeg raises (neither open succeeds, or Image.save fails on the opened
\* file, which stays as it is: _save_cv2_jpeg has no clean-up of its own): start
\* answers 500
PreviewSaveFails(r) ==
    /\ procs[r].pc \in {"pv_save", "pv_pil_write", "pv_pil_new"}
    /\ procs' = [procs EXCEPT ![r].pc = "done", ![r].resp = Some("500"),
                              ![r].raw_path = None, ![r].cfg = None,
                              ![r].key = None, ![r].img = None, ![r].st = NoStat,
                              ![r].q = 0]
    /\ UNCHANGED <<fs, cache, LATEST, TASKS, queue, decodeCalls, escaped, lastDone,
                   completed, harness>>

\* start, lines 91-104: LATEST["preview"], executor.submit(run_full), the response
Submit(r) ==
    /\ procs[r].pc = "pv_ret"
    /\ LATEST' = [LATEST EXCEPT !.preview = procs[r].key]
    /\ queue' = Append(queue, r)
    /\ procs' = [procs EXCEPT ![r].pc = "queued", ![r].pv = procs[r].key,
                              ![r].key = None, ![r].img = None,
                              ![r].st = NoStat, ![r].q = 0,
                              ![r].resp = Some("processing")]
    /\ UNCHANGED <<fs, cache, TASKS, decodeCalls, escaped, lastDone, completed, harness>>

\* --- the background job run_full, on a worker of the executor

\* an except clause that lets the error out of the job instead of recording it
RunFullReraises(j, e) ==
    /\ TASKS' = TASKS
    /\ escaped' = escaped \cup {j}

\* an except clause that does not overwrite the status of a job that succeeded
RunFullKeepsSuccess(j, e) ==
    /\ TASKS' = IF IsSome(TASKS.last) /\ IsSome(Val(TASKS.last).full) THEN TASKS
                ELSE [TASKS EXCEPT !.last = Some([preview |-> LATEST.preview,
                                                  full |-> None, error |-> Some(e)])]
    /\ escaped' = escaped

\* the except clause of run_full: the error goes into TASKS["last"] and nowhere else
RunFullExcept(j, e) ==
    /\ TASKS' = [TASKS EXCEPT !.last = Some([preview |-> LATEST.preview, full |-> None,
                                              error |-> Some(e)])]
    /\ escaped' = escaped

\* a failed job that is submitted again
FailRetries(j, e) ==
    /\ RunFullExcept(j, e)
    /\ procs' = [procs EXCEPT ![j].pc = "queued", ![j].key = None, ![j].img = None,
                              ![j].st = NoStat, ![j].q = 0]
    /\ lastDone' = lastDone

\* a job ends FAILED
Fail(j, e) ==
    /\ RunFullExcept(j, e)
    /\ procs' = [procs EXCEPT ![j].pc = "failed", ![j].raw_path = None,
                              ![j].cfg = None, ![j].pv = None, ![j].key = None,
                              ![j].img = None, ![j].st = NoStat, ![j].q = 0]
    /\ lastDone' = Some(j)

\* a free worker takes the head of the queue: run_full calls full_process_raw, lines
\* 115-131, which returns the cached path or goes on to decode under the policy of
\* the moment
JobStart(j, battery) ==
    /\ queue # <<>> /\ Head(queue) = j
    /\ Cardinality(Running) < MaxWorkers
    /\ queue' = Tail(queue)
    /\ LET raw_path == Val(procs[j].raw_path)
           filters_config == FullCfg(procs[j].cfg)
           st == Val(fs[raw_path])
           key == KeyOf(raw_path, st, filters_config)
           full_path == FullName(key)
           hit == Lookup(full_path)
       IN  /\ procs' = [procs EXCEPT
                 ![j].pc = IF hit THEN "fl_ret" ELSE "fl_decode",
                 ![j].st = st,
                 ![j].key = Some(full_path),
                 ![j].q = IF hit THEN 0 ELSE EffectiveQuality(battery, 92)]
           /\ completed' = IF hit
                           THEN completed \cup
                                  {CallInputs("full", raw_path, st, filters_config,
                                              full_path)}
                           ELSE completed
    /\ UNCHANGED <<fs, cache, LATEST, TASKS, decodeCalls, escaped, lastDone, harness>>

\* full_process_raw, lines 133-158: decode with AHD, or with the default mode after
\* AHD was rejected, then filter
FullDecode(j) ==
    /\ procs[j].pc = "fl_decode"
    /\ decodeCalls' = decodeCalls + 1
    /\ procs' = [procs EXCEPT
         ![j].pc = "fl_save",
         ![j].img = Some(FullFilters(
                       Raster(Val(fs[Val(procs[j].raw_path)]), "full"),
                       FullCfg(procs[j].cfg)))]
    /\ UNCHANGED <<fs, cache, LATEST, TASKS, queue, escaped, lastDone, completed, harness>>

\* both decode modes are rejected: RuntimeError, caught by run_full
FullDecodeFails(j) ==
    /\ procs[j].pc = "fl_decode"
    /\ decodeCalls' = decodeCalls + 1
    /\ Fail(j, FullDecodeError(<<"e">>))
    /\ UNCHANGED <<fs, cache, LATEST, queue, completed, harness>>

FullSaveOpen(j) ==
    /\ procs[j].pc = "fl_save"
    /\ SaveOpen(j, "fl_cv_write", "fl_pil_write", "fl_pil_new")
    /\ UNCHANGED <<fs, LATEST, TASKS, queue, decodeCalls, escaped, lastDone, completed,
                   harness>>

FullCvWrite(j) ==
    /\ procs[j].pc = "fl_cv_write"
    /\ CvWrite(j, "fl_ret", "fl_pil_write")
    /\ IF procs'[j].pc = "fl_ret" THEN Returned(j, "full") ELSE UNCHANGED completed
    /\ UNCHANGED <<fs, LATEST, TASKS, queue, decodeCalls, escaped, lastDone, harness>>

FullPilWrite(j) ==
    /\ procs[j].pc \in {"fl_pil_write", "fl_pil_new"}
    /\ PilWrite(j, "fl_ret")
    /\ Returned(j, "full")
    /\ UNCHANGED <<fs, LATEST, TASKS, queue, decodeCalls, escaped, lastDone, harness>>

\* _save_cv2_jpeg raises inside the job: str(e) of an OSError, which has a message
FullSaveFails(j) ==
    /\ procs[j].pc \in {"fl_save", "fl_pil_write", "fl_pil_new"}
    /\ Fail(j, <<"e">>)
    /\ UNCHANGED <<fs, cache, LATEST, queue, decodeCalls, completed, harness>>

\* run_full: LATEST["full"] = os.path.basename(full_path)
SetLatestFull(j) ==
    /\ procs[j].pc = "fl_ret"
    /\ LATEST' = [LATEST EXCEPT !.full = procs[j].key]
    /\ procs' = [procs EXCEPT ![j].pc = "fl_status", ![j].img = None, ![j].st = NoStat,
                              ![j].q = 0]
    /\ UNCHANGED <<fs, cache, TASKS, queue, decodeCalls, escaped, lastDone, completed,
                   harness>>

\* run_full: TASKS["last"] = {"preview": LATEST.get("preview"), "full": LATEST.get("full")}
WriteStatus(j) ==
    /\ procs[j].pc = "fl_status"
    /\ TASKS' = [TASKS EXCEPT !.last = Some([preview |-> LATEST.preview,
                                              full |-> LATEST.full, error |-> None])]
    /\ procs' = [procs EXCEPT ![j].pc = "succeeded", ![j].raw_path = None,
                              ![j].cfg = None, ![j].pv = None, ![j].key = None]
    /\ lastDone' = Some(j)
    /\ UNCHANGED <<fs, cache, LATEST, queue, decodeCalls, escaped, completed, harness>>

\* --- the environment: the RAW file is rewritten (a later mtime)
ModifyRaw ==
    /\ fs[RAW_DEFAULT] = Some(FirstStat)
    /\ fs' = [fs EXCEPT ![RAW_DEFAULT] = Some(LaterStat)]
    /\ UNCHANGED <<cache, LATEST, TASKS, procs, queue, decodeCalls, escaped, lastDone,
                   completed, harness>>

\* --- the read-only routes

\* a status that reports done as soon as any job has written TASKS["last"]
StatusDoneIfLast ==
    IF TASKS.last = None
    THEN [done |-> FALSE, preview |-> LATEST.preview, full |-> LATEST.full, error |-> None]
    ELSE LET last == Val(TASKS.last)
         IN  [done |-> TRUE, preview |-> last.preview, full |-> last.full,
              error |-> last.error]

\* bool(o) of an optional string: None and the empty string are false
Truthy(o) == IsSome(o) /\ Val(o) # <<>>

\* GET /status, lines 121-138: a key is in the answer only if its value is truthy
status ==
    IF TASKS.last = None
    THEN [done |-> FALSE, preview |-> LATEST.preview,
          full |-> IF Truthy(LATEST.full) THEN LATEST.full ELSE None, error |-> None]
    ELSE LET last == Val(TASKS.last)
         IN  [done |-> Truthy(last.full), preview |-> last.preview,
              full |-> IF Truthy(last.full) THEN last.full ELSE None,
              error |-> IF Truthy(last.error) THEN last.error ELSE None]

\* GET /image?f=<basename>, lines 106-119: 404, or the bytes the file holds now
image(fname) == IF Exists(fname) THEN Some(cache[fname]) ELSE None

Next ==
    \/ \E r \in 1..MaxStart, raw_path \in RawPaths, preset_filters \in StartCfgs :
           Start(r, raw_path, preset_filters)
    \/ \E r \in 1..MaxStart :
           \/ PreviewDecode(r) \/ PreviewSaveOpen(r) \/ PreviewCvWrite(r)
           \/ PreviewPilWrite(r) \/ PreviewSaveFails(r) \/ Submit(r)
    \/ \E j \in Jobs :
           \/ \E battery \in JobBatteries : JobStart(j, battery)
           \/ FullDecode(j) \/ FullDecodeFails(j) \/ FullSaveOpen(j) \/ FullCvWrite(j)
           \/ FullPilWrite(j) \/ FullSaveFails(j) \/ SetLatestFull(j) \/ WriteStatus(j)
    \/ ModifyRaw

Spec == Init /\ [][Next]_vars

\* every step of job j, on its worker thread
JobStep(j) ==
    \/ \E battery \in JobBatteries : JobStart(j, battery)
    \/ FullDecode(j) \/ FullDecodeFails(j) \/ FullSaveOpen(j) \/ FullCvWrite(j)
    \/ FullPilWrite(j) \/ FullSaveFails(j) \/ SetLatestFull(j) \/ WriteStatus(j)

\* the executor's threads are scheduled fairly, and decode and encode return
LiveSpec == Spec /\ \A j \in Jobs : WF_vars(JobStep(j))

(***************************************************************************)
(* The pure functions, each under a specification of its own: Init draws   *)
(* the arguments, the action applies the function.  The server is off.     *)
(***************************************************************************)
ServerOff ==
    /\ fs = None /\ cache = None /\ LATEST = None /\ TASKS = None /\ procs = None
    /\ queue = None /\ decodeCalls = 0 /\ escaped = {} /\ lastDone = None
    /\ completed = {}

\* --- file_hash_of_raw_and_filters, on two requests a and b
KeyPaths == { <<"a">>, <<"a", "1">> }
KeySizes == {1, 12}
KeyTimes == { [sec |-> s, frac |-> f] : s \in {3, 23}, f \in {0, 50} }
KeyCfgs ==
    { None, Some(<<>>),
      Some(<< <<"saturation", 100>> >>),
      Some(<< <<"saturation", 115>> >>),
      Some(<< <<"saturation", 115>>, <<"sharpen", 50>> >>),
      Some(<< <<"sharpen", 50>>, <<"saturation", 115>> >>),
      Some(<< <<"saturation", 115>>, <<"sharpen", 0>> >>) }
KeyRequests ==
    { [raw_path |-> p, st |-> [st_size |-> z, st_mtime |-> t], filters_config |-> c] :
        p \in KeyPaths, z \in KeySizes, t \in KeyTimes, c \in KeyCfgs }

KeyInit ==
    /\ ServerOff
    /\ call \in { [fn |-> "file_hash_of_raw_and_filters", a |-> x, b |-> y] :
                    x \in KeyRequests, y \in KeyRequests }
    /\ result = [a |-> None, b |-> None]

HashFirst ==
    /\ result.a = None
    /\ result' = [result EXCEPT !.a = Some(file_hash_of_raw_and_filters(
                      call.a.raw_path, call.a.st, call.a.filters_config))]
    /\ UNCHANGED <<serverVars, call>>

HashSecond ==
    /\ result.a # None /\ result.b = None
    /\ result' = [result EXCEPT !.b = Some(file_hash_of_raw_and_filters(
                      call.b.raw_path, call.b.st, call.b.filters_config))]
    /\ UNCHANGED <<serverVars, call>>

KeyNext == HashFirst \/ HashSecond

KeySpec == KeyInit /\ [][KeyNext]_vars

\* --- processing_policy
MaxCpu == 16
Batteries == {None} \cup { Some(b) : b \in 0..100 }

PolicyInit ==
    /\ ServerOff
    /\ call \in { [fn |-> "processing_policy", cpu |-> c, battery |-> b, opencl |-> o] :
                    c \in 1..MaxCpu, b \in Batteries, o \in BOOLEAN }
    /\ result = None

PolicyCall ==
    /\ result = None
    /\ result' = Some(processing_policy(call.cpu, call.battery, call.opencl))
    /\ UNCHANGED <<serverVars, call>>

PolicyNext == PolicyCall

PolicySpec == PolicyInit /\ [][PolicyNext]_vars

\* --- the encode quality of full_process_raw
Qualities == 1..100

QualityInit ==
    /\ ServerOff
    /\ call \in { [fn |-> "full_process_raw", quality |-> q, battery |-> b] :
                    q \in Qualities, b \in Batteries }
    /\ result = None

QualityCall ==
    /\ result = None
    /\ result' = Some(EffectiveQuality(call.battery, call.quality))
    /\ UNCHANGED <<serverVars, call>>

QualityNext == QualityCall

QualitySpec == QualityInit /\ [][QualityNext]_vars

\* --- the downscaling of fast_preview_raw
MaxSide == 6

ResizeInit ==
    /\ ServerOff
    /\ call \in { [fn |-> "fast_preview_raw", h |-> h, w |-> w, max_dim |-> d] :
                    h \in 1..MaxSide, w \in 1..MaxSide, d \in 1..MaxSide }
    /\ result = None

ResizeCall ==
    /\ result = None
    /\ result' = Some(ResizedDims(call.h, call.w, call.max_dim))
    /\ UNCHANGED <<serverVars, call>>

ResizeNext == ResizeCall

ResizeSpec == ResizeInit /\ [][ResizeNext]_vars

\* --- the decode of full_process_raw, over the answers of the decoder
DecoderMessages(raw_path) ==
    { <<"Input/output error">>, <<"Unsupported file format or not RAW file">>,
      <<"cannot read ">> \o raw_path }

DecodeInit ==
    /\ ServerOff
    /\ call \in { [fn |-> "full_process_raw", raw_path |-> p, imread |-> i,
                    first |-> a, second |-> b, e |-> m] :
                    p \in RawPaths \cup KeyPaths, i \in BOOLEAN, a \in BOOLEAN,
                    b \in BOOLEAN,
                    m \in UNION { DecoderMessages(q) : q \in RawPaths \cup KeyPaths } }
    /\ result = None

DecodeCall ==
    /\ result = None
    /\ result' = Some(Decode("AHD", call.raw_path, call.imread, call.first, call.second,
                              call.e))
    /\ UNCHANGED <<serverVars, call>>

DecodeNext == DecodeCall

DecodeSpec == DecodeInit /\ [][DecodeNext]_vars

\* --- the filter stage of the three entry points
StageCfgs ==
    { None, Some(<<>>) } \cup
    { Some(<< <<"saturation", s>>, <<"warmth", w>>, <<"brightness", b>>,
              <<"contrast", c>>, <<"sharpen", h>> >>) :
        s \in {100, 115}, w \in {100, 102}, b \in {100, 110}, c \in {100, 102},
        h \in {-50, 0, 50} }

\* the filters_config in force: None is replaced by the function's defaults
\* (apply_filters_to_jpeg has none: /apply_filter passes {} for a missing "filter")
CfgInForce(fn, cfg) ==
    IF IsSome(cfg) THEN Val(cfg)
    ELSE IF fn = "fast_preview_raw" THEN PreviewDefaults
    ELSE IF fn = "full_process_raw" THEN FullDefaults
    ELSE <<>>

StageInit ==
    /\ ServerOff
    /\ call \in { [fn |-> f, cfg |-> c] :
                    f \in {"fast_preview_raw", "full_process_raw", "apply_filters_to_jpeg"},
                    c \in StageCfgs }
    /\ result = None

PreviewStage ==
    /\ result = None /\ call.fn = "fast_preview_raw"
    /\ result' = Some(PreviewFilters(Raster("raw", "half"), CfgInForce(call.fn, call.cfg)))
    /\ UNCHANGED <<serverVars, call>>

FullStage ==
    /\ result = None /\ call.fn = "full_process_raw"
    /\ result' = Some(FullFilters(Raster("raw", "full"), CfgInForce(call.fn, call.cfg)))
    /\ UNCHANGED <<serverVars, call>>

EditStage ==
    /\ result = None /\ call.fn = "apply_filters_to_jpeg"
    /\ result' = Some(EditFilters(Raster("jpeg", "same"), CfgInForce(call.fn, call.cfg)))
    /\ UNCHANGED <<serverVars, call>>

StageNext == PreviewStage \/ FullStage \/ EditStage

StageSpec == StageInit /\ [][StageNext]_vars

(***************************************************************************)
(* Properties                                                              *)
(***************************************************************************)
ItemSet(c) == IF IsSome(c) THEN { Val(c)[i] : i \in 1..Len(Val(c)) } ELSE {}
KeySet(c) == { it[1] : it \in ItemSet(c) }
SameMapping(c, d) == (IsSome(c) <=> IsSome(d)) /\ ItemSet(c) = ItemSet(d)
BothHashed == IsSome(result.a) /\ IsSome(result.b)

\* C2: two computations of file_hash_of_raw_and_filters with the same path, size,
\* mtime (to the second) and the same filter mapping give the same key, whatever
\* the insertion order of the mapping's keys.
C2_KeyDeterministic ==
    ( /\ BothHashed
      /\ call.a.raw_path = call.b.raw_path
      /\ call.a.st.st_size = call.b.st.st_size
      /\ IntOfTime(call.a.st.st_mtime) = IntOfTime(call.b.st.st_mtime)
      /\ SameMapping(call.a.filters_config, call.b.filters_config) )
    => result.a = result.b

\* C2's case: the same mapping inserted in two different orders, hashed twice
C2_Witness ==
    /\ BothHashed
    /\ call.a.raw_path = call.b.raw_path
    /\ call.a.st.st_size = call.b.st.st_size
    /\ call.a.st.st_mtime.sec = call.b.st.st_mtime.sec
    /\ call.a.st.st_mtime.frac # call.b.st.st_mtime.frac
    /\ SameMapping(call.a.filters_config, call.b.filters_config)
    /\ call.a.filters_config # call.b.filters_config
    /\ result.a = result.b

\* the two requests differ in exactly one of: the size, the modification time
\* (timeDiff says whether it differs), the value of one filter parameter
DifferInOne(x, y, timeDiff) ==
    LET sizeDiff == x.st.st_size # y.st.st_size
        changed  == { k \in KeySet(x.filters_config) :
                        \E i \in ItemSet(x.filters_config), j \in ItemSet(y.filters_config) :
                            i[1] = k /\ j[1] = k /\ i[2] # j[2] }
        cfgSame  == SameMapping(x.filters_config, y.filters_config)
        cfgOne   == /\ IsSome(x.filters_config) /\ IsSome(y.filters_config)
                    /\ KeySet(x.filters_config) = KeySet(y.filters_config)
                    /\ Cardinality(changed) = 1
    IN  /\ x.raw_path = y.raw_path
        /\ \/ sizeDiff /\ ~timeDiff /\ cfgSame
           \/ ~sizeDiff /\ timeDiff /\ cfgSame
           \/ ~sizeDiff /\ ~timeDiff /\ cfgOne

\* C3 as stated: requests on one path that differ in exactly one filter value, or
\* in the size, or in the modification time, have different keys.
C3_KeySensitive_Original ==
    ( /\ BothHashed
      /\ DifferInOne(call.a, call.b, call.a.st.st_mtime # call.b.st.st_mtime) )
    => result.a # result.b

\* whether the modification times differ once truncated to whole seconds
SecondsDiffer(x, y) == IntOfTime(x.st.st_mtime) # IntOfTime(y.st.st_mtime)

\* C3, amended: requests on one path that differ in exactly one filter value, or in
\* the size, or in the modification time truncated to whole seconds, have different keys.
C3_KeySensitive ==
    (BothHashed /\ DifferInOne(call.a, call.b, SecondsDiffer(call.a, call.b)))
    => result.a # result.b

\* C3's case: only the size differs, and the keys differ
C3_Witness ==
    /\ BothHashed
    /\ DifferInOne(call.a, call.b, SecondsDiffer(call.a, call.b))
    /\ call.a.st.st_size # call.b.st.st_size
    /\ result.a # result.b

\* the step in which process p starts a preview or a full call and looks the key up
LookupStep(p) ==
    \/ procs[p].pc = "idle" /\ procs'[p].pc \in {"pv_ret", "pv_decode"}
    \/ procs[p].pc = "queued" /\ procs'[p].pc \in {"fl_ret", "fl_decode"}

\* C1: once a preview/full call has returned a path, a later call of the same tier
\* with the same source path, size, mtime and filter parameters returns that path
\* at once: no RAW decode (decodeCalls unchanged) and no write to the cache.
C1_CachedRepeat ==
    [][ \A p \in Procs : LookupStep(p) =>
          \A c \in completed :
            ( /\ c.tier = (IF procs[p].pc = "idle" THEN "preview" ELSE "full")
              /\ c.raw_path = Val(procs'[p].raw_path)
              /\ c.st_size = procs'[p].st.st_size
              /\ c.st_mtime = procs'[p].st.st_mtime
              /\ c.cfg = (IF procs[p].pc = "idle" THEN PreviewCfg(procs'[p].cfg)
                          ELSE FullCfg(procs'[p].cfg)) )
            => /\ procs'[p].pc \in {"pv_ret", "fl_ret"}
               /\ procs'[p].key = Some(c.path)
               /\ decodeCalls' = decodeCalls
               /\ cache' = cache ]_vars

\* C1's case: the first /start got the preview the startup run cached, and the only
\* decode so far is the startup's
C1_Witness ==
    /\ procs[1].pc = "pv_ret"
    /\ procs[1].key = Some(PreviewName(StartupKey))
    /\ decodeCalls = 1

\* C4: a lookup never finds a cache entry whose contents are still being written.
C4_StoreAtomic ==
    [][ \A p \in Procs :
          (LookupStep(p) /\ procs'[p].pc \in {"pv_ret", "fl_ret"})
              => cache[Val(procs'[p].key)].done ]_vars

JobEnds(j, pc) == procs[j].pc # pc /\ procs'[j].pc = pc

\* C5: a job that ends SUCCEEDED writes a status with the preview and the full
\* reference and no error; a job that ends FAILED writes one with the preview
\* reference, an error and no full reference, and /status then answers done=false
\* with that error.
C5_StatusShape ==
    [][ \A j \in Jobs :
          /\ JobEnds(j, "succeeded") =>
                /\ IsSome(TASKS'.last)
                /\ IsSome(Val(TASKS'.last).preview)
                /\ IsSome(Val(TASKS'.last).full)
                /\ Val(TASKS'.last).error = None
          /\ JobEnds(j, "failed") =>
                /\ IsSome(TASKS'.last)
                /\ IsSome(Val(TASKS'.last).preview)
                /\ IsSome(Val(TASKS'.last).error)
                /\ Val(TASKS'.last).full = None
                /\ status'.done = FALSE
                /\ status'.error = Val(TASKS'.last).error ]_vars

\* C5's case: a job has failed and /status shows its error, the preview, no full
C5_Witness ==
    /\ \E j \in Jobs : procs[j].pc = "failed"
    /\ IsSome(status.error) /\ IsSome(status.preview)
    /\ status.full = None /\ ~status.done

Range(q) == { q[i] : i \in 1..Len(q) }

\* C6: a submitted job is never cancelled (it is queued, running or finished), two
\* jobs about to write their status can do so in either order, and Job Status is
\* what the job that finished last wrote: an error and no full reference if that
\* job failed, a full reference and no error if it succeeded.
C6_LastWriterWins ==
    /\ \A j \in Jobs :
          /\ procs[j].resp = Some("processing") => JobState(j) # "NONE"
          /\ JobState(j) = "QUEUED" <=> j \in Range(queue)
          /\ procs[j].pc = "fl_status" => ENABLED WriteStatus(j)
          /\ procs[j].pc \in {"fl_decode", "fl_save", "fl_pil_write", "fl_pil_new"} =>
                ENABLED (FullDecodeFails(j) \/ FullSaveFails(j))
    /\ IsSome(lastDone) =>
          /\ IsSome(TASKS.last)
          /\ procs[Val(lastDone)].pc \in TerminalPcs
          /\ procs[Val(lastDone)].pc = "failed" =>
                IsSome(Val(TASKS.last).error) /\ Val(TASKS.last).full = None
          /\ procs[Val(lastDone)].pc = "succeeded" =>
                Val(TASKS.last).error = None /\ IsSome(Val(TASKS.last).full)

\* C6's case: the job of /start failed after the startup job had succeeded, and the
\* status shows the error and no full reference
C6_Witness ==
    /\ procs[0].pc = "succeeded" /\ procs[1].pc = "failed"
    /\ lastDone = Some(1)
    /\ IsSome(Val(TASKS.last).error) /\ Val(TASKS.last).full = None
    /\ IsSome(LATEST.full)

\* C7: a failure inside a job never leaves run_full: it is recorded in
\* TASKS["last"] as an error and changes nothing else that a client can see, and
\* the pool goes on taking queued jobs whenever a worker is free.
C7_FailureContained ==
    /\ [][ \A j \in Jobs : JobEnds(j, "failed") =>
              /\ IsSome(TASKS'.last) /\ IsSome(Val(TASKS'.last).error)
              /\ LATEST' = LATEST /\ cache' = cache
              /\ procs'[j].resp = procs[j].resp
              /\ j \notin Running' ]_vars
    /\ [](escaped = {})
    /\ []((queue # <<>> /\ Cardinality(Running) < MaxWorkers)
             => ENABLED (\E b \in JobBatteries : JobStart(Head(queue), b)))

\* C7's case: the startup job has failed, and the job of a later /start is about to
\* be taken by a worker
C7_Witness ==
    /\ procs[0].pc = "failed" /\ procs[1].pc = "queued"
    /\ IsSome(status.error)
    /\ ENABLED (\E b \in JobBatteries : JobStart(1, b))

HasOp(r, name) == \E i \in 1..Len(r.ops) : r.ops[i][1] = name

\* C9: in fast_preview_raw, full_process_raw and apply_filters_to_jpeg a filter whose
\* strength is neutral is not invoked, sharpen is invoked only for a strength > 0,
\* and with every parameter neutral the raster is the unfiltered one.
C9_SkipRule ==
    IsSome(result) =>
        LET cfg == CfgInForce(call.fn, call.cfg)
            r == Val(result)
        IN  /\ Get(cfg, "saturation", 100) = 100 => ~HasOp(r, "apply_saturation")
            /\ Get(cfg, "warmth", 100) = 100 => ~HasOp(r, "apply_warmth")
            /\ (Get(cfg, "brightness", 100) = 100 /\ Get(cfg, "contrast", 100) = 100)
                   => ~HasOp(r, "adjust_brightness_contrast")
            /\ HasOp(r, "sharpen") => Get(cfg, "sharpen", 0) > 0
            /\ ( /\ Get(cfg, "saturation", 100) = 100 /\ Get(cfg, "warmth", 100) = 100
                 /\ Get(cfg, "brightness", 100) = 100 /\ Get(cfg, "contrast", 100) = 100
                 /\ Get(cfg, "sharpen", 0) = 0 ) => r.ops = <<>>

\* C10: n_workers is min(6, cpu-1) for cpu >= 8, cpu-1 for 4 <= cpu < 8, 1 below 4,
\* halved (floor, at least 1) when the battery is known and <= 20; it lies in 1..6.
C10_PolicyWorkers ==
    IsSome(result) =>
        LET cpu == call.cpu
            n == Val(result).n_workers
            base == IF cpu >= 8 THEN (IF cpu - 1 < 6 THEN cpu - 1 ELSE 6)
                    ELSE IF cpu >= 4 THEN cpu - 1 ELSE 1
            low == IsSome(call.battery) /\ Val(call.battery) <= 20
            half == CHOOSE h \in 0..base : 2 * h <= base /\ base < 2 * (h + 1)
        IN  /\ n = IF low THEN (IF half < 1 THEN 1 ELSE half) ELSE base
            /\ 1 <= n /\ n <= 6
            /\ (cpu = 8 /\ call.battery = Some(15)) => n = 3

\* C10's case: 8 cores at 15% battery get 3 workers
C10_Witness ==
    /\ IsSome(result) /\ call.cpu = 8 /\ call.battery = Some(15)
    /\ Val(result).n_workers = 3

\* C11: the encode quality of full_process_raw is the requested quality reduced by 6
\* but never below 85 when the battery is known and <= 15, and the requested quality
\* unchanged otherwise (battery 10, requested 92: 86; battery 50, requested 92: 92).
C11_QualityRule ==
    IsSome(result) =>
        LET q == call.quality
            low == IsSome(call.battery) /\ Val(call.battery) <= 15
            q6 == q - 6
        IN  /\ low => Val(result) = (IF q6 < 85 THEN 85 ELSE q6)
            /\ ~low => Val(result) = q
            /\ (call.battery = Some(10) /\ q = 92) => Val(result) = 86
            /\ (call.battery = Some(50) /\ q = 92) => Val(result) = 92

\* C11's case: 92 requested at 10% battery is encoded at 86
C11_Witness ==
    /\ IsSome(result) /\ call.battery = Some(10) /\ call.quality = 92
    /\ Val(result) = 86

\* C20: the battery adjustment only ever lowers the quality: the effective encode
\* quality is at most the requested one.
C20_QualityNeverRaised ==
    IsSome(result) => Val(result) <= call.quality

\* C14: for every decoded h >= 1, w >= 1 and max_dim >= 1 the preview's larger
\* dimension is at most max_dim, neither dimension exceeds the decoded one, both
\* are at least 1, and the raster is not resized when max(h, w) <= max_dim.
C14_Downscale ==
    IsSome(result) =>
        LET r == Val(result)
            m == IF call.h > call.w THEN call.h ELSE call.w
        IN  /\ r.w <= call.max_dim /\ r.h <= call.max_dim
            /\ r.w <= call.w /\ r.h <= call.h
            /\ r.w >= 1 /\ r.h >= 1
            /\ m <= call.max_dim => (~r.resized /\ r.w = call.w /\ r.h = call.h)

\* the string s occurs in the string t
Contains(t, s) == \E i \in 1..(Len(t) - Len(s) + 1) : SubSeq(t, i, i + Len(s) - 1) = s

\* C15: full_process_raw tries the preferred mode (AHD) first and the default mode
\* only after the preferred one was rejected; if the decode still fails, the call
\* fails with an error that identifies the source path and stores nothing.
C15_DecodeFallback ==
    IsSome(result) =>
        LET r == Val(result)
        IN  /\ call.imread => r.tried[1] = "AHD"
            /\ (\E i \in 1..Len(r.tried) : r.tried[i] = "default") =>
                   (~call.first /\ r.tried = <<"AHD", "default">>)
            /\ r.rgb = None =>
                   /\ IsSome(r.error) /\ ~r.stored
                   /\ Contains(Val(r.error), call.raw_path)

\* the rest of C15, without the source path: the order of the modes, and a failed
\* decode is an error that stores nothing
C15_DecodeOrder ==
    IsSome(result) =>
        LET r == Val(result)
        IN  /\ call.imread => r.tried[1] = "AHD"
            /\ (\E i \in 1..Len(r.tried) : r.tried[i] = "default") =>
                   (~call.first /\ r.tried = <<"AHD", "default">>)
            /\ r.rgb = None => (IsSome(r.error) /\ ~r.stored)

\* the pcs of a /start handler that has not answered yet
HandlerPcs == {"idle", "pv_decode", "pv_save", "pv_cv_write", "pv_pil_write", "pv_pil_new"}

\* C13: a /start whose RAW path does not exist (400) or whose preview fails (500)
\* answers its caller with the error, submits no job, and leaves LATEST and TASKS
\* as they were: no step of the handler up to the error touches them or the queue,
\* and after the error the request does nothing more.
C13_TriggerErrors ==
    [][ \A r \in 1..MaxStart :
          /\ (procs[r].pc \in HandlerPcs /\ procs'[r] # procs[r]) =>
                /\ LATEST' = LATEST /\ TASKS' = TASKS /\ queue' = queue
                /\ procs'[r].pc \in HandlerPcs \cup {"pv_ret", "done"}
                /\ procs'[r].pc = "done" <=> procs'[r].resp \in {Some("400"), Some("500")}
                /\ (procs[r].pc = "idle" /\ procs'[r].resp # Some("400"))
                      => fs[Val(procs'[r].raw_path)] # None
                /\ procs'[r].resp = Some("400")
                      => (procs[r].pc = "idle" /\ \E raw_path \in RawPaths : fs[raw_path] = None)
          /\ procs[r].resp \in {Some("400"), Some("500")} =>
                /\ procs'[r] = procs[r]
                /\ JobState(r)' = "NONE"
                /\ r \notin Range(queue') ]_vars

\* C13's case: a /start answered 500 while the startup run's preview is in LATEST
\* and the startup job has written its status
C13_Witness ==
    /\ procs[1].resp = Some("500") /\ procs[1].pc = "done"
    /\ IsSome(LATEST.preview) /\ IsSome(TASKS.last)
    /\ 1 \notin Range(queue)

\* the step in which process p, inside _save_cv2_jpeg, opens its output file
OpensFile(p) ==
    /\ procs[p].pc \in {"pv_save", "fl_save"}
    /\ procs'[p].pc \in {"pv_cv_write", "pv_pil_write", "pv_pil_new",
                          "fl_cv_write", "fl_pil_write", "fl_pil_new"}

\* C12: a cache entry is written at most once: a request opens the file of its key
\* for writing only if the file does not exist yet, a complete entry never changes,
\* and no entry is ever deleted.
C12_WrittenOnce ==
    [][ /\ \A p \in Procs : OpensFile(p) => ~Exists(Val(procs[p].key))
        /\ \A f \in DOMAIN cache :
              /\ f \in DOMAIN cache'
              /\ cache[f].done => cache'[f] = cache[f] ]_vars

\* the preview file and the full file belong to one trigger request: some RAW path
\* and some "preset_filters" produce both names (the file may have been rewritten
\* between the two, so each name may carry its own stat)
OfOneRequest(preview, full) ==
    \E raw_path \in RawPaths, preset_filters \in StartCfgs, st1 \in ServerStats,
       st2 \in ServerStats :
        /\ preview = PreviewName(KeyOf(raw_path, st1, PreviewCfg(preset_filters)))
        /\ full = FullName(KeyOf(raw_path, st2, FullCfg(preset_filters)))

\* C16: whenever /status answers with a preview reference and a full reference, the
\* two were produced for the same trigger request (same RAW path, same filter
\* parameters).
C16_StatusOfOneRequest ==
    (IsSome(status.preview) /\ IsSome(status.full)) =>
        OfOneRequest(Val(status.preview), Val(status.full))

\* the /start requests that were answered "processing"
Triggered == { r \in 1..MaxStart : procs[r].resp = Some("processing") }

\* C17: after a full request R was triggered (here: R is the only /start answered
\* so far), /status reports neither done=true nor a full reference until R's own
\* job has succeeded.
C17_DoneMeansOwnJob ==
    \A r \in 1..MaxStart :
        (Triggered = {r} /\ procs[r].pc # "succeeded") =>
            (~status.done /\ status.full = None)

\* C18: a cache hit returns what a miss would have produced for the same call on
\* the same machine state: whenever fast_preview_raw (called with quality 80 and
\* max_dim 1024) or full_process_raw (called with quality 92 while the battery
\* reads b) finds a complete entry, the entry holds the raster and the quality the
\* call would have encoded.
C18_HitEqualsMiss ==
    [][ /\ \A r \in 1..MaxStart, raw_path \in RawPaths, preset_filters \in StartCfgs :
              (Start(r, raw_path, preset_filters) /\ procs'[r].pc = "pv_ret") =>
                  LET f == Val(procs'[r].key)
                  IN  cache[f].done =>
                        cache[f] = Artifact(PreviewFilters(Raster(procs'[r].st, "half"),
                                                           PreviewCfg(preset_filters)), 80)
        /\ \A j \in Jobs, b \in JobBatteries :
              (JobStart(j, b) /\ procs'[j].pc = "fl_ret") =>
                  LET f == Val(procs'[j].key)
                  IN  cache[f].done =>
                        cache[f] = Artifact(FullFilters(Raster(procs'[j].st, "full"),
                                                        FullCfg(procs[j].cfg)),
                                            EffectiveQuality(b, 92)) ]_vars

\* the step in which the store of process p fails for good: Image.save raises on a
\* file that was there when it opened it (the file cv2's writer had opened and
\* failed to complete, or one an earlier call had left)
StoreFails(p) ==
    /\ procs[p].pc \in {"pv_pil_write", "fl_pil_write"}
    /\ procs'[p].pc \in {"done", "failed"}

\* C19: a store that fails (the write raises part-way and the secondary encode path
\* fails too) leaves no cache entry for its key, and the job is reported failed; a
\* later request for the key is then a miss.
C19_FailedStoreLeavesNothing ==
    [][ \A p \in Procs : StoreFails(p) =>
          /\ ~(Val(procs[p].key) \in DOMAIN cache')
          /\ procs'[p].pc = "failed" => IsSome(Val(TASKS'.last).error) ]_vars

====
